---- MODULE Spec2Model ----
(***************************************************************************)
(* goukv: one key-value contract over two storage engines.                 *)
(*                                                                         *)
(*   leveldb  (providers/leveldb/provider.go): the engine has no per-key   *)
(*            expiry; the provider stores EntryToValue(e).Bytes() and      *)
(*            checks the expiry itself when it reads.                      *)
(*   badgerdb (providers/badgerdb/provider.go): the engine keeps ExpiresAt *)
(*            per item and hides an expired item from Get and iterators.   *)
(*                                                                         *)
(* Byte slices are sequences of small naturals.  A Go slice that may be    *)
(* nil is an option: <<>> for nil, <<b>> for the non-nil slice b.          *)
(* Time is counted in whole seconds, the unit of badger's ExpiresAt        *)
(* (time.Unix(int64(expiresAt), 0)); an absent expiry is NoExpiry.         *)
(***************************************************************************)
EXTENDS Integers, Sequences, FiniteSets, TLC

\* ---------------------------------------------------------------- bounds
MaxTime == 2      \* the clock runs over 1..MaxTime
MaxTTL == 1       \* Entry.TTL ranges over 0..MaxTTL
MaxBatch == 2     \* a Batch call carries 1..MaxBatch entries
MaxStop == 2      \* a Scanner may fail on its 1st..MaxStop-th invocation

\* the inputs: keys "a", "b", "ba"; offsets also "bb" and "c", which are never
\* stored; the empty prefix and the prefix "b"
Keys == {<<1>>, <<2>>, <<2, 1>>}
Values == {<<>>, <<7>>}
Offsets == Keys \cup {<<2, 2>>, <<3>>}
Prefixes == {<<>>, <<2>>}

None == <<>>
Some(x) == <<x>>
IsNil(o) == o = <<>>
Val(o) == o[1]

\* ---------------------------------------------------------------- errors
ErrNil == "nil"
ErrKeyNotFound == "ErrKeyNotFound"
ErrNoScanner == "ErrNoScanner"
ErrScanDone == "ErrScanDone"
ErrCallback == "ErrCallback"     \* any other error a Scanner returns
ErrEngine == "ErrEngine"         \* an error of the storage engine
ErrDriverAlreadyExists == "ErrDriverAlreadyExists"
ErrDriverNotFound == "ErrDriverNotFound"
ErrNoPath == "must specify path" \* Provider.Open without opts["path"]
Panic == "panic"                 \* a Go runtime panic (call of a nil func)

NoExpiry == 0

VARIABLES
    backend,    \* which provider was opened: "leveldb" or "badgerdb"
    now,        \* the clock, in seconds
    ldb,        \* leveldb: key -> stored payload bytes
    bdb,        \* badger: key -> item
    last,       \* the result the last call returned, until the caller takes it
    bpc,        \* the Batch call in flight: "idle" or "build"
    bentries,   \* its entries
    bbuf,       \* the engine's batch, one record per entry handled so far
    bstamps,    \* history: the clock when each entry was handled
    committed,  \* history: the reference store (see RefUpsert)
    config,     \* opts["sync_writes"] as given to Open: nil, or a bool
    closed,     \* Close has returned
    gcpc,       \* the maintenance goroutine: "none", "wait" or "pass"
    gcerr,      \* what its last db.RunValueLogGC returned
    gcAfterClose,   \* history: RunValueLogGC was called after Close returned
    drivers,    \* the registry: driver name -> factory
    rlast       \* the result of the last Register / Open of the registry

\* the maintenance goroutine, and the registry
maint == <<closed, gcpc, gcerr, gcAfterClose>>
registry == <<drivers, rlast>>

vars == <<backend, now, ldb, bdb, last, bpc, bentries, bbuf, bstamps, committed,
          config, maint, registry>>

\* ------------------------------------------------------------ byte order
RECURSIVE BytesCompare(_, _)
BytesCompare(a, b) ==
    IF a = <<>> /\ b = <<>> THEN 0
    ELSE IF a = <<>> THEN -1
    ELSE IF b = <<>> THEN 1
    ELSE IF Head(a) < Head(b) THEN -1
    ELSE IF Head(a) > Head(b) THEN 1
    ELSE BytesCompare(Tail(a), Tail(b))

HasPrefix(k, p) == Len(p) <= Len(k) /\ SubSeq(k, 1, Len(p)) = p

\* ------------------------------------------- value codec (leveldb only)
\* Value{Value, Expires}: Expires is set iff the entry has a TTL.
EntryToValue(e, t) ==
    [Value |-> IF IsNil(e.Value) THEN <<>> ELSE Val(e.Value),
     Expires |-> IF e.TTL > 0 THEN t + e.TTL ELSE NoExpiry]

\* Value.Bytes(): a flag byte, the expiry when there is one, the raw value.
ValueBytes(v) ==
    IF v.Expires = NoExpiry THEN <<0>> \o v.Value
    ELSE <<1, v.Expires>> \o v.Value

BytesToValue(b) ==
    IF b[1] = 0 THEN [Value |-> SubSeq(b, 2, Len(b)), Expires |-> NoExpiry]
    ELSE [Value |-> SubSeq(b, 3, Len(b)), Expires |-> b[2]]

IsExpired(v, t) == v.Expires # NoExpiry /\ t >= v.Expires

\* ------------------------------------------------------- engine: leveldb
\* db.Put / db.Delete / db.Get on the map key -> stored bytes.
LdbSet(db, k, b) == [x \in DOMAIN db \cup {k} |-> IF x = k THEN b ELSE db[x]]
LdbDel(db, k) == [x \in DOMAIN db \ {k} |-> db[x]]

\* ------------------------------------------------------ engine: badgerdb
\* An item is {value, ExpiresAt}; ExpiresAt = 0 never expires.
BadgerExpired(item, t) == item.ExpiresAt # 0 /\ item.ExpiresAt <= t
\* badger.NewEntry(key, value) and Entry.WithTTL(ttl)
BadgerEntry(v, ttl, t) ==
    [value |-> v, ExpiresAt |-> IF ttl > 0 THEN t + ttl ELSE 0]
BadgerSet(db, k, item) ==
    [x \in DOMAIN db \cup {k} |-> IF x = k THEN item ELSE db[x]]
BadgerDel(db, k) == [x \in DOMAIN db \ {k} |-> db[x]]
\* txn.Get: ErrKeyNotFound for a missing and for an expired item.
BadgerFound(db, k, t) == k \in DOMAIN db /\ ~BadgerExpired(db[k], t)

\* ------------------------------------------------------------------ Open
\* opts["sync_writes"].(bool): the option as given, nil when it is absent or
\* not a bool
Configs == {None, Some(FALSE), Some(TRUE)}
\* syncWrites, ok := opts["sync_writes"].(bool); if !ok { syncWrites = false }
SyncWritesOf(cfg) == IF IsNil(cfg) THEN FALSE ELSE Val(cfg)

\* leveldb: Open sets opt.Options{NoSync: syncWrites} and every write passes
\* opt.WriteOptions{Sync: p.syncWrites}; the engine syncs a write iff its
\* Sync is set and the database's NoSync is not.
LdbNoSync(cfg) == SyncWritesOf(cfg)
LdbWriteSync(cfg) == SyncWritesOf(cfg) /\ ~LdbNoSync(cfg)

\* badgerdb: badgerOpts.WithSyncWrites(syncWrites) returns a changed copy,
\* which Open drops; badger.Open gets badger.DefaultOptions(path), whose
\* SyncWrites is true.
BadgerDefaultSyncWrites == TRUE
BdbWriteSync(cfg) == BadgerDefaultSyncWrites

\* ------------------------------------------------------------ operations
Entries == [Key : Keys, Value : {None} \cup {Some(v) : v \in Values},
            TTL : 0..MaxTTL]

\* faulty variant: Put that also sweeps the expired payloads out of the store
LdbPutSweeps(db, e, t) ==
    LdbSet([k \in {x \in DOMAIN db : ~IsExpired(BytesToValue(db[x]), t)} |->
               db[k]],
           e.Key, ValueBytes(EntryToValue(e, t)))

LdbPut(db, e, t) == LdbSet(db, e.Key, ValueBytes(EntryToValue(e, t)))

\* the bytes of a Go slice: a nil slice holds none
BytesOf(o) == IF IsNil(o) THEN <<>> ELSE Val(o)

\* faulty variant: Put that always calls txn.Set and drops the TTL
BdbPutNoTTL(db, e, t) ==
    BadgerSet(db, e.Key, BadgerEntry(BytesOf(e.Value), 0, t))

BdbPut(db, e, t) ==
    IF e.TTL > 0
    THEN BadgerSet(db, e.Key, BadgerEntry(BytesOf(e.Value), e.TTL, t))
    ELSE BadgerSet(db, e.Key, BadgerEntry(BytesOf(e.Value), 0, t))

\* faulty variant: Get without the IsExpired check
LdbGetNoExpiry(db, k, t) ==
    IF k \notin DOMAIN db THEN [val |-> <<>>, err |-> ErrKeyNotFound]
    ELSE [val |-> BytesToValue(db[k]).Value, err |-> ErrNil]

LdbGet(db, k, t) ==
    IF k \notin DOMAIN db THEN [val |-> <<>>, err |-> ErrKeyNotFound]
    ELSE IF IsExpired(BytesToValue(db[k]), t)
         THEN [val |-> <<>>, err |-> ErrKeyNotFound]
         ELSE [val |-> BytesToValue(db[k]).Value, err |-> ErrNil]

\* faulty variant: Delete that reports a key it does not find
BdbDeleteStrict(db, k) ==
    IF k \notin DOMAIN db THEN [db |-> db, err |-> ErrKeyNotFound]
    ELSE [db |-> BadgerDel(db, k), err |-> ErrNil]

\* Delete: db.Delete(k, ...) / txn.Delete(k) in db.Update; neither engine
\* reports a key that is not there
LdbDelete(db, k) == [db |-> LdbDel(db, k), err |-> ErrNil]
BdbDelete(db, k) == [db |-> BadgerDel(db, k), err |-> ErrNil]

BdbGet(db, k, t) ==
    IF ~BadgerFound(db, k, t) THEN [val |-> <<>>, err |-> ErrKeyNotFound]
    ELSE [val |-> db[k].value, err |-> ErrNil]

LdbTTL(db, k, t) ==
    IF k \notin DOMAIN db THEN [exp |-> NoExpiry, err |-> ErrKeyNotFound]
    ELSE [exp |-> BytesToValue(db[k]).Expires, err |-> ErrNil]

BdbTTL(db, k, t) ==
    IF ~BadgerFound(db, k, t) THEN [exp |-> NoExpiry, err |-> ErrKeyNotFound]
    ELSE [exp |-> IF db[k].ExpiresAt > 0 THEN db[k].ExpiresAt ELSE NoExpiry,
          err |-> ErrNil]

\* ------------------------------------------------------------ iterators
\* A cursor is an option: None when the iterator is exhausted or invalid.
MinKey(S) == CHOOSE k \in S : \A x \in S : BytesCompare(k, x) <= 0
MaxKey(S) == CHOOSE k \in S : \A x \in S : BytesCompare(k, x) >= 0
First(S) == IF S = {} THEN None ELSE Some(MinKey(S))
Last(S) == IF S = {} THEN None ELSE Some(MaxKey(S))
SeekGE(S, k) == First({x \in S : BytesCompare(x, k) >= 0})
SeekLE(S, k) == Last({x \in S : BytesCompare(x, k) <= 0})
NextOf(S, k) == First({x \in S : BytesCompare(x, k) > 0})
PrevOf(S, k) == Last({x \in S : BytesCompare(x, k) < 0})

\* opts.Scanner, the caller's callback: nil, or a function that returns
\* failWith on its failAt-th invocation and nil on the others.
Scanners ==
    {None} \cup {Some([failAt |-> 0, failWith |-> ErrNil])}
    \cup {Some([failAt |-> n, failWith |-> e]) :
            n \in 1..MaxStop, e \in {ErrScanDone, ErrCallback}}
Scanner(opts, n) ==
    IF Val(opts.Scanner).failAt = n THEN Val(opts.Scanner).failWith ELSE ErrNil

ScanOpts ==
    {o \in [Prefix : {None} \cup {Some(p) : p \in Prefixes},
            Offset : {None} \cup {Some(k) : k \in Offsets},
            ReverseScan : BOOLEAN, IncludeOffset : BOOLEAN,
            Scanner : Scanners] :
        IsNil(o.Offset) => ~o.IncludeOffset}

\* what a Scan returns after it has created its iterator
ScanResult(emitted, err) == [emitted |-> emitted, err |-> err, opened |-> TRUE]
\* the return that precedes NewIterator / NewTransaction
ScanRefused(err) == [emitted |-> <<>>, err |-> err, opened |-> FALSE]

\* ------------------------------------------------------- Scan (leveldb)
\* p.db.NewIterator(util.BytesPrefix(opts.Prefix), nil) or NewIterator(nil, nil):
\* the keys the iterator ranges over (expired payloads included).
LdbRange(db, opts) ==
    IF ~IsNil(opts.Prefix)
    THEN {k \in DOMAIN db : HasPrefix(k, Val(opts.Prefix))}
    ELSE DOMAIN db

\* next = iter.Prev or iter.Next
LdbNext(R, opts, k) ==
    IF opts.ReverseScan THEN PrevOf(R, k) ELSE NextOf(R, k)

\* seek: iter.Seek(opts.Offset), iter.Last, or no function at all (seek
\* stays nil when Offset is nil and ReverseScan is false).
LdbSeekIsNil(opts) == IsNil(opts.Offset) /\ ~opts.ReverseScan
LdbSeek(R, opts) ==
    IF ~IsNil(opts.Offset) THEN SeekGE(R, Val(opts.Offset))
    ELSE Last(R)

\* faulty variant: the offset record is skipped whatever IncludeOffset says
LdbSkipOffsetAlways(opts, k) ==
    ~IsNil(opts.Offset) /\ k = Val(opts.Offset)

\* the skip of the offset record
LdbSkipOffset(opts, k) ==
    ~IsNil(opts.Offset) /\ ~opts.IncludeOffset /\ k = Val(opts.Offset)

\* faulty variant: ErrScanDone is returned to the caller like any other error
ScannerNeverStops(err) == FALSE

\* faulty variant: an error of the Scanner is dropped and the scan goes on
ScannerIgnoresError(err) == FALSE

\* what the loop does with a Scanner's return value
ScannerStops(err) == err = ErrScanDone
ScannerFails(err) == err # ErrNil /\ err # ErrScanDone

\* faulty variant: an expired record is handed to the Scanner like any other
LdbEmitsExpired(decodedValue, t) == FALSE

\* the skip of an expired record: decodedValue.IsExpired() and continue
LdbSkipExpired(decodedValue, t) == IsExpired(decodedValue, t)

RECURSIVE LdbLoop(_, _, _, _, _, _)
LdbLoop(db, R, opts, cur, emitted, t) ==
    IF IsNil(cur) THEN ScanResult(emitted, ErrNil)
    ELSE LET k == Val(cur)
             decodedValue == BytesToValue(db[k])
         IN IF LdbSkipOffset(opts, k)
            THEN LdbLoop(db, R, opts, LdbNext(R, opts, k), emitted, t)
            ELSE IF LdbSkipExpired(decodedValue, t)
            THEN LdbLoop(db, R, opts, LdbNext(R, opts, k), emitted, t)
            ELSE LET em == Append(emitted, <<k, decodedValue.Value>>)
                     err == Scanner(opts, Len(em))
                 IN IF ScannerStops(err) THEN ScanResult(em, ErrNil)
                    ELSE IF ScannerFails(err) THEN ScanResult(em, err)
                    ELSE LdbLoop(db, R, opts, LdbNext(R, opts, k), em, t)

LdbScan(db, opts, t) ==
    IF IsNil(opts.Scanner) THEN ScanRefused(ErrNoScanner)
    ELSE IF LdbSeekIsNil(opts) THEN ScanResult(<<>>, Panic)
    ELSE LdbLoop(db, LdbRange(db, opts), opts,
                 LdbSeek(LdbRange(db, opts), opts), <<>>, t)

\* ------------------------------------------------------ Scan (badgerdb)
\* The read transaction's iterator ranges over every item that is not
\* expired; iterOpts.Prefix only decides Valid().
BadgerVisible(db, t) == {k \in DOMAIN db : ~BadgerExpired(db[k], t)}

BdbIterPrefix(opts) ==
    IF ~IsNil(opts.Prefix) /\ Len(Val(opts.Prefix)) > 0
    THEN Val(opts.Prefix) ELSE <<>>

\* Iterator.Seek: an empty key stands for the prefix; forward it lands on the
\* smallest key >= key, in reverse on the greatest key <= key.
BadgerSeek(S, key, prefix, reverse) ==
    LET k == IF Len(key) = 0 THEN prefix ELSE key
    IN IF Len(k) = 0 THEN (IF reverse THEN Last(S) ELSE First(S))
       ELSE IF reverse THEN SeekLE(S, k) ELSE SeekGE(S, k)
\* Iterator.Rewind is Seek(prefix)
BadgerRewind(S, prefix, reverse) == BadgerSeek(S, prefix, prefix, reverse)
BadgerValid(cur, prefix) == ~IsNil(cur) /\ HasPrefix(Val(cur), prefix)
BadgerNext(S, k, reverse) == IF reverse THEN PrevOf(S, k) ELSE NextOf(S, k)

BdbSeek(S, opts) ==
    IF ~IsNil(opts.Offset)
    THEN BadgerSeek(S, Val(opts.Offset), BdbIterPrefix(opts), opts.ReverseScan)
    ELSE BadgerRewind(S, BdbIterPrefix(opts), opts.ReverseScan)

BdbSkipOffset(opts, k, checked) ==
    /\ ~checked
    /\ ~IsNil(opts.Offset)
    /\ ~opts.IncludeOffset
    /\ BytesCompare(k, Val(opts.Offset)) = 0

RECURSIVE BdbLoop(_, _, _, _, _, _)
BdbLoop(db, S, opts, cur, checked, emitted) ==
    IF ~BadgerValid(cur, BdbIterPrefix(opts)) THEN ScanResult(emitted, ErrNil)
    ELSE LET key == Val(cur)
         IN IF BdbSkipOffset(opts, key, checked)
            THEN BdbLoop(db, S, opts, BadgerNext(S, key, opts.ReverseScan),
                         TRUE, emitted)
            ELSE LET em == Append(emitted, <<key, db[key].value>>)
                     err == Scanner(opts, Len(em))
                 IN IF ScannerStops(err) THEN ScanResult(em, ErrNil)
                    ELSE IF ScannerFails(err) THEN ScanResult(em, err)
                    ELSE BdbLoop(db, S, opts,
                                 BadgerNext(S, key, opts.ReverseScan), TRUE, em)

\* faulty variant: no check of opts.Scanner; the nil func is called for the
\* first record the iterator finds
BdbScanUnchecked(db, opts, t) ==
    IF IsNil(opts.Scanner)
    THEN ScanResult(<<>>,
                    IF BadgerValid(BdbSeek(BadgerVisible(db, t), opts),
                                   BdbIterPrefix(opts))
                    THEN Panic ELSE ErrNil)
    ELSE BdbLoop(db, BadgerVisible(db, t), opts,
                 BdbSeek(BadgerVisible(db, t), opts), FALSE, <<>>)

BdbScan(db, opts, t) ==
    IF IsNil(opts.Scanner) THEN ScanRefused(ErrNoScanner)
    ELSE BdbLoop(db, BadgerVisible(db, t), opts,
                 BdbSeek(BadgerVisible(db, t), opts), FALSE, <<>>)

\* -------------------------------------------------------------- Batch
\* the entries of the Batch calls: for one key a deletion, an empty value and
\* a value with a TTL; for another a deletion and a value without
BatchEntries ==
    {[Key |-> <<1>>, Value |-> None, TTL |-> 0],
     [Key |-> <<1>>, Value |-> Some(<<>>), TTL |-> 0],
     [Key |-> <<1>>, Value |-> Some(<<7>>), TTL |-> MaxTTL],
     [Key |-> <<2>>, Value |-> None, TTL |-> 0],
     [Key |-> <<2>>, Value |-> Some(<<7>>), TTL |-> 0]}
BatchInputs ==
    UNION {[1..n -> BatchEntries] : n \in 1..MaxBatch}

\* faulty variant: an empty Value deletes, as a nil one does (len(entry.Value) == 0)
LdbBatchAddEmptyDeletes(buf, entry, t) ==
    IF BytesOf(entry.Value) = <<>>
    THEN Append(buf, [del |-> TRUE, key |-> entry.Key, bytes |-> <<>>])
    ELSE Append(buf, [del |-> FALSE, key |-> entry.Key,
                      bytes |-> ValueBytes(EntryToValue(entry, t))])

\* leveldb: batch.Delete(entry.Key) or batch.Put(entry.Key, payload)
LdbBatchAdd(buf, entry, t) ==
    IF IsNil(entry.Value)
    THEN Append(buf, [del |-> TRUE, key |-> entry.Key, bytes |-> <<>>])
    ELSE Append(buf, [del |-> FALSE, key |-> entry.Key,
                      bytes |-> ValueBytes(EntryToValue(entry, t))])

\* db.Write(batch): the records are applied in order, all at once
RECURSIVE LdbWrite(_, _)
LdbWrite(db, buf) ==
    IF buf = <<>> THEN db
    ELSE LdbWrite(IF Head(buf).del THEN LdbDel(db, Head(buf).key)
                  ELSE LdbSet(db, Head(buf).key, Head(buf).bytes),
                  Tail(buf))

\* badger: batch.Delete, batch.SetEntry (with a TTL) or batch.Set
BdbBatchAdd(buf, entry, t) ==
    IF IsNil(entry.Value)
    THEN Append(buf, [del |-> TRUE, key |-> entry.Key,
                      item |-> BadgerEntry(<<>>, 0, t)])
    ELSE IF entry.TTL > 0
    THEN Append(buf, [del |-> FALSE, key |-> entry.Key,
                      item |-> BadgerEntry(Val(entry.Value), entry.TTL, t)])
    ELSE Append(buf, [del |-> FALSE, key |-> entry.Key,
                      item |-> BadgerEntry(Val(entry.Value), 0, t)])

\* batch.Flush(): the transaction's pending writes are committed at once; a
\* later write of a key replaces the earlier one.
RECURSIVE BadgerFlush(_, _)
BadgerFlush(db, buf) ==
    IF buf = <<>> THEN db
    ELSE BadgerFlush(IF Head(buf).del THEN BadgerDel(db, Head(buf).key)
                     ELSE BadgerSet(db, Head(buf).key, Head(buf).item),
                     Tail(buf))

\* db.Write that returns an error has written nothing
LdbWriteFailed(db, buf) == db
\* faulty variant: the writes made before the error are committed
BadgerCancelFlushes(db, buf) == BadgerFlush(db, buf)
\* batch.Cancel(): the transaction is discarded with its pending writes
BadgerCancel(db, buf) == db

\* --------------------------------------------- reference (history) store
\* committed: key -> [val, exp], what the calls that returned success have
\* written, read one after the other; the claims compare the engines with it.
RefUpsert(c, k, v, ttl, t) ==
    [x \in DOMAIN c \cup {k} |->
        IF x = k THEN [val |-> v, exp |-> IF ttl = 0 THEN NoExpiry ELSE t + ttl]
        ELSE c[x]]
RefDelete(c, k) == [x \in DOMAIN c \ {k} |-> c[x]]
RefLive(c, k, t) == k \in DOMAIN c /\ (c[k].exp = NoExpiry \/ t < c[k].exp)
RECURSIVE RefBatch(_, _, _)
RefBatch(c, es, ts) ==
    IF es = <<>> THEN c
    ELSE RefBatch(IF IsNil(Head(es).Value) THEN RefDelete(c, Head(es).Key)
                  ELSE RefUpsert(c, Head(es).Key, Val(Head(es).Value),
                                 Head(es).TTL, Head(ts)),
                  Tail(es), Tail(ts))

\* What the opened engine holds, as key -> [val, exp].
Stored ==
    IF backend = "leveldb"
    THEN [k \in DOMAIN ldb |-> [val |-> BytesToValue(ldb[k]).Value,
                                exp |-> BytesToValue(ldb[k]).Expires]]
    ELSE [k \in DOMAIN bdb |-> [val |-> bdb[k].value,
                                exp |-> bdb[k].ExpiresAt]]

EmptyMap == [x \in {} |-> 0]
NoOpts == [Prefix |-> None, Offset |-> None, ReverseScan |-> FALSE,
           IncludeOffset |-> FALSE, Scanner |-> None]
\* What a call returned, and what the claims need to know of the call: its
\* arguments; before, the engine content the call found (for Delete and the
\* reads); opened, whether a Scan created its iterator; sync, whether a write
\* was synced to disk before it returned.
Result(op, k, v, exp, err) ==
    [op |-> op, key |-> k, val |-> v, exp |-> exp, err |-> err,
     opts |-> NoOpts, emitted |-> <<>>, entries |-> <<>>,
     before |-> None, opened |-> FALSE, sync |-> FALSE]
NoResult == Result("none", <<>>, <<>>, NoExpiry, ErrNil)
\* A foreground call starts when the caller holds no untaken result and has
\* not closed the provider.
Idle == last = NoResult /\ ~closed

\* ------------------------------------------------------ driver registry
\* Register(name, factory) and Open(name, config) on the process-wide table
\* name -> factory.  A factory is one of the two providers; its Open fails
\* when the configuration has no path.
Names == {"leveldb", "badgerdb", "other"}
Factories == {"leveldb.Provider", "badgerdb.Provider"}
OpenConfigs == {[path |-> None], [path |-> Some("db")]}

\* Provider.Open as the registry sees it: a provider, or an error
FactoryOpen(f, cfg) ==
    IF IsNil(cfg.path) THEN [provider |-> None, err |-> ErrNoPath]
    ELSE [provider |-> Some([factory |-> f, path |-> Val(cfg.path)]),
          err |-> ErrNil]

\* faulty variant: a second Register of a name replaces its factory
RegisterReplaces(ds, name, f) ==
    [drivers |-> [x \in DOMAIN ds \cup {name} |->
                    IF x = name THEN f ELSE ds[x]],
     err |-> IF name \in DOMAIN ds THEN ErrDriverAlreadyExists ELSE ErrNil]

Register(ds, name, f) ==
    IF name \in DOMAIN ds
    THEN [drivers |-> ds, err |-> ErrDriverAlreadyExists]
    ELSE [drivers |-> [x \in DOMAIN ds \cup {name} |->
                         IF x = name THEN f ELSE ds[x]],
          err |-> ErrNil]

Open(ds, name, cfg) ==
    IF name \notin DOMAIN ds
    THEN [provider |-> None, err |-> ErrDriverNotFound]
    ELSE FactoryOpen(ds[name], cfg)

\* what the last call of the registry returned; before is the table it found
RegistryResult(op, name, f, cfg, provider, err, before) ==
    [op |-> op, name |-> name, factory |-> f, cfg |-> cfg,
     provider |-> provider, err |-> err, before |-> before]
NoRegistryResult ==
    RegistryResult("none", "", "", [path |-> None], None, ErrNil, EmptyMap)

RegisterCall ==
    \E name \in Names, f \in Factories :
        /\ drivers' = Register(drivers, name, f).drivers
        /\ rlast' = RegistryResult("Register", name, f, [path |-> None], None,
                                   Register(drivers, name, f).err, drivers)
        /\ UNCHANGED <<backend, config, maint, now, ldb, bdb, last, bpc,
                       bentries, bbuf, bstamps, committed>>

OpenCall ==
    \E name \in Names, cfg \in OpenConfigs :
        /\ rlast' = RegistryResult("Open", name, "", cfg,
                                   Open(drivers, name, cfg).provider,
                                   Open(drivers, name, cfg).err, drivers)
        /\ UNCHANGED <<backend, config, maint, now, ldb, bdb, last, bpc,
                       bentries, bbuf, bstamps, committed, drivers>>

NextRegistry == RegisterCall \/ OpenCall

\* whether the write that returns was synced to disk
WriteSync ==
    IF backend = "leveldb" THEN LdbWriteSync(config) ELSE BdbWriteSync(config)

\* the provider as Open returns it, but for the option sync_writes
InitProvider ==
    /\ backend \in {"leveldb", "badgerdb"}
    /\ now = 1
    /\ ldb = EmptyMap
    /\ bdb = EmptyMap
    /\ last = NoResult
    /\ bpc = "idle"
    /\ bentries = <<>>
    /\ bbuf = <<>>
    /\ bstamps = <<>>
    /\ committed = EmptyMap
    /\ closed = FALSE
    /\ gcpc = IF backend = "badgerdb" THEN "wait" ELSE "none"
    /\ gcerr = ErrNil
    /\ gcAfterClose = FALSE
    /\ drivers = EmptyMap
    /\ rlast = NoRegistryResult

\* Open without sync_writes
Init == InitProvider /\ config = None

\* Open with any sync_writes
InitSync == InitProvider /\ config \in Configs

\* the caller takes the result of the call that returned
Return ==
    /\ last # NoResult
    /\ last' = NoResult
    /\ UNCHANGED <<backend, config, maint, registry, now, ldb, bdb, bpc,
                   bentries, bbuf, bstamps, committed>>

Tick ==
    /\ Idle
    /\ now < MaxTime
    /\ now' = now + 1
    /\ UNCHANGED <<backend, config, maint, registry, ldb, bdb, last, bpc,
                   bentries, bbuf, bstamps, committed>>

PutOf(E) ==
    \E e \in E :
        /\ Idle
        /\ IF backend = "leveldb"
           THEN ldb' = LdbPut(ldb, e, now) /\ bdb' = bdb
           ELSE bdb' = BdbPut(bdb, e, now) /\ ldb' = ldb
        /\ committed' = RefUpsert(committed, e.Key, BytesOf(e.Value), e.TTL, now)
        /\ last' = [Result("Put", e.Key, <<>>, NoExpiry, ErrNil)
                      EXCEPT !.sync = WriteSync]
        /\ UNCHANGED <<backend, config, maint, registry, now, bpc, bentries,
                       bbuf, bstamps>>

DeleteOf(K) ==
    \E k \in K :
        /\ Idle
        /\ LET r == IF backend = "leveldb" THEN LdbDelete(ldb, k)
                    ELSE BdbDelete(bdb, k)
           IN /\ IF backend = "leveldb"
                 THEN ldb' = r.db /\ bdb' = bdb
                 ELSE bdb' = r.db /\ ldb' = ldb
              /\ committed' = IF r.err = ErrNil THEN RefDelete(committed, k)
                              ELSE committed
              /\ last' = [Result("Delete", k, <<>>, NoExpiry, r.err)
                            EXCEPT !.before = Some(Stored),
                                   !.sync = WriteSync]
        /\ UNCHANGED <<backend, config, maint, registry, now, bpc, bentries,
                       bbuf, bstamps>>

GetOf(K) ==
    \E k \in K :
        /\ Idle
        /\ LET r == IF backend = "leveldb" THEN LdbGet(ldb, k, now)
                    ELSE BdbGet(bdb, k, now)
           IN last' = [Result("Get", k, r.val, NoExpiry, r.err)
                         EXCEPT !.before = Some(Stored)]
        /\ UNCHANGED <<backend, config, maint, registry, now, ldb, bdb, bpc,
                       bentries, bbuf, bstamps, committed>>

TTLOf(K) ==
    \E k \in K :
        /\ Idle
        /\ LET r == IF backend = "leveldb" THEN LdbTTL(ldb, k, now)
                    ELSE BdbTTL(bdb, k, now)
           IN last' = [Result("TTL", k, <<>>, r.exp, r.err)
                         EXCEPT !.before = Some(Stored)]
        /\ UNCHANGED <<backend, config, maint, registry, now, ldb, bdb, bpc,
                       bentries, bbuf, bstamps, committed>>

Put == PutOf(Entries)
Delete == DeleteOf(Keys)
Get == GetOf(Keys)
TTL == TTLOf(Keys)

ScanOf(O) ==
    \E opts \in O :
        /\ Idle
        /\ LET r == IF backend = "leveldb" THEN LdbScan(ldb, opts, now)
                    ELSE BdbScan(bdb, opts, now)
           IN last' = [Result("Scan", <<>>, <<>>, NoExpiry, r.err)
                         EXCEPT !.opts = opts, !.emitted = r.emitted,
                                !.opened = r.opened, !.before = Some(Stored)]
        /\ UNCHANGED <<backend, config, maint, registry, now, ldb, bdb, bpc,
                       bentries, bbuf, bstamps, committed>>

Scan == ScanOf(ScanOpts)

\* Batch, step by step: other calls run between its steps.
BatchStart ==
    \E es \in BatchInputs :
        /\ Idle
        /\ bpc = "idle"
        /\ bpc' = "build"
        /\ bentries' = es
        /\ bbuf' = <<>>
        /\ bstamps' = <<>>
        /\ UNCHANGED <<backend, config, maint, registry, now, ldb, bdb, last,
                       committed>>

BatchFinish(err) ==
    /\ bpc' = "idle"
    /\ bentries' = <<>>
    /\ bbuf' = <<>>
    /\ bstamps' = <<>>
    /\ last' = [Result("Batch", <<>>, <<>>, NoExpiry, err)
                  EXCEPT !.entries = bentries,
                         !.sync = (err = ErrNil /\ WriteSync)]

\* one turn of the loop over entries
BatchAdd ==
    /\ Idle
    /\ bpc = "build"
    /\ Len(bbuf) < Len(bentries)
    /\ LET entry == bentries[Len(bbuf) + 1]
       IN IF backend = "leveldb"
          THEN /\ bbuf' = LdbBatchAdd(bbuf, entry, now)
               /\ bstamps' = Append(bstamps, now)
               /\ UNCHANGED <<bpc, bentries, last>>
               /\ UNCHANGED bdb
          ELSE \E err \in {ErrNil, ErrEngine} :
                 IF err # ErrNil
                 THEN /\ BatchFinish(err)
                      /\ bdb' = BadgerCancel(bdb, bbuf)
                 ELSE /\ bbuf' = BdbBatchAdd(bbuf, entry, now)
                      /\ bstamps' = Append(bstamps, now)
                      /\ UNCHANGED <<bpc, bentries, last, bdb>>
    /\ UNCHANGED <<backend, config, maint, registry, now, ldb, committed>>

\* p.db.Write(batch, ...) / batch.Flush(): succeeds, or fails and writes nothing
BatchWrite ==
    /\ Idle
    /\ bpc = "build"
    /\ Len(bbuf) = Len(bentries)
    /\ \E err \in {ErrNil, ErrEngine} :
         /\ BatchFinish(err)
         /\ IF err = ErrNil
            THEN /\ IF backend = "leveldb"
                    THEN ldb' = LdbWrite(ldb, bbuf) /\ bdb' = bdb
                    ELSE bdb' = BadgerFlush(bdb, bbuf) /\ ldb' = ldb
                 /\ committed' = RefBatch(committed, bentries, bstamps)
            ELSE /\ IF backend = "leveldb"
                    THEN ldb' = LdbWriteFailed(ldb, bbuf) /\ bdb' = bdb
                    ELSE bdb' = BadgerCancel(bdb, bbuf) /\ ldb' = ldb
                 /\ UNCHANGED committed
    /\ UNCHANGED <<backend, config, maint, registry, now>>

\* Close: p.db.Close()
Close ==
    /\ Idle
    /\ bpc = "idle"
    /\ closed' = TRUE
    /\ last' = Result("Close", <<>>, <<>>, NoExpiry, ErrNil)
    /\ UNCHANGED <<backend, config, registry, now, ldb, bdb, bpc, bentries,
                   bbuf, bstamps, committed, gcpc, gcerr, gcAfterClose>>

\* ------------------------------------ the maintenance goroutine (badgerdb)
\* Open starts it: `for range ticker.C { for { err := db.RunValueLogGC(0.5);
\* if err != nil { break } } }`.  gcpc is "wait" at `range ticker.C` and
\* "pass" before a call of RunValueLogGC.
\* RunValueLogGC returns nil when it rewrote a value-log file and an error
\* when it did not; a rewrite drops stale entries, expired items among them.
GCOutcomes == {ErrNil, ErrEngine}
GCDrops(db, t) == SUBSET {k \in DOMAIN db : BadgerExpired(db[k], t)}

\* faulty variant: an error of the pass ends the goroutine
GCAfterExits(err) == IF err # ErrNil THEN "done" ELSE "pass"

\* err != nil: break, back to the ticker; nil: the inner loop runs again
GCAfter(err) == IF err # ErrNil THEN "wait" ELSE "pass"

\* the ticker fires; nothing stops it, and the goroutine holds db whether or
\* not Close has returned
GCTick ==
    /\ gcpc = "wait"
    /\ gcpc' = "pass"
    /\ gcerr' = ErrNil
    /\ UNCHANGED <<backend, config, registry, now, ldb, bdb, last, bpc,
                   bentries, bbuf, bstamps, committed, closed, gcAfterClose>>

\* one call of db.RunValueLogGC
GCPass ==
    /\ gcpc = "pass"
    /\ \E err \in GCOutcomes :
         /\ gcerr' = err
         /\ gcpc' = GCAfter(err)
         /\ IF err = ErrNil /\ ~closed
            THEN \E D \in GCDrops(bdb, now) :
                    bdb' = [k \in DOMAIN bdb \ D |-> bdb[k]]
            ELSE bdb' = bdb
    /\ gcAfterClose' = (gcAfterClose \/ closed)
    /\ UNCHANGED <<backend, config, registry, now, ldb, last, bpc, bentries,
                   bbuf, bstamps, committed, closed>>

Next == Return \/ Tick \/ Put \/ Delete \/ Get \/ TTL

\* the scans run over stores written with one value
PutForScan == PutOf({e \in Entries : e.Value = Some(<<7>>)})

NextScan == Return \/ Tick \/ PutForScan \/ Delete \/ Scan

\* beside a Batch in flight: a writer of one of its keys and of a key no Batch
\* names, and the readers
PutBesideBatch ==
    PutOf({[Key |-> <<1>>, Value |-> Some(<<7>>), TTL |-> 0],
           [Key |-> <<1>>, Value |-> Some(<<7>>), TTL |-> MaxTTL],
           [Key |-> <<2, 1>>, Value |-> Some(<<7>>), TTL |-> 0]})
GetBesideBatch == GetOf(Keys)
TTLBesideBatch == TTLOf({<<1>>, <<2>>})

NextBatch ==
    \/ Return \/ Tick \/ PutBesideBatch \/ GetBesideBatch \/ TTLBesideBatch
    \/ BatchStart \/ BatchAdd \/ BatchWrite

\* the foreground calls beside the maintenance goroutine
PutBesideGC ==
    PutOf({[Key |-> <<1>>, Value |-> Some(<<7>>), TTL |-> MaxTTL],
           [Key |-> <<2>>, Value |-> Some(<<7>>), TTL |-> 0],
           [Key |-> <<2>>, Value |-> Some(<<>>), TTL |-> MaxTTL]})
DeleteBesideGC == DeleteOf({<<1>>, <<2>>})
GetBesideGC == GetOf({<<1>>, <<2>>})
TTLBesideGC == TTLOf({<<1>>, <<2>>})
ScanBesideGC ==
    ScanOf({o \in ScanOpts :
              /\ o.Scanner = Some([failAt |-> 0, failWith |-> ErrNil])
              /\ IsNil(o.Prefix)
              /\ o.Offset \in {None, Some(<<1>>)}
              /\ ~o.IncludeOffset})

NextMaint ==
    \/ Return \/ Tick \/ PutBesideGC \/ DeleteBesideGC \/ GetBesideGC
    \/ TTLBesideGC \/ ScanBesideGC \/ Close \/ GCTick \/ GCPass

Spec == Init /\ [][Next]_vars

SpecMaint == Init /\ [][NextMaint]_vars

SpecRegistry == Init /\ [][NextRegistry]_vars

\* the writes of a provider opened with each value of sync_writes
PutSynced == PutOf({[Key |-> <<1>>, Value |-> Some(<<7>>), TTL |-> 0]})
DeleteSynced == DeleteOf({<<1>>, <<2>>})

NextSync ==
    \/ Return \/ PutSynced \/ DeleteSynced
    \/ BatchStart \/ BatchAdd \/ BatchWrite

SpecSync == InitSync /\ [][NextSync]_vars

SpecScan == Init /\ [][NextScan]_vars

SpecBatch == Init /\ [][NextBatch]_vars
\* ================================================================ claims
\* the Scan that returned: its options, and the keys it handed to the Scanner
ScanReturned == last.op = "Scan"
NeverFails(opts) ==
    ~IsNil(opts.Scanner) /\ Val(opts.Scanner).failAt = 0
EmittedKeys == [i \in 1..Len(last.emitted) |-> last.emitted[i][1]]
EmittedSet == {EmittedKeys[i] : i \in 1..Len(last.emitted)}
Ascending(ks) ==
    \A i, j \in 1..Len(ks) : i < j => BytesCompare(ks[i], ks[j]) < 0
Descending(ks) ==
    \A i, j \in 1..Len(ks) : i < j => BytesCompare(ks[i], ks[j]) > 0
\* the keys of the reference store that are not expired, under a prefix
LiveUnder(prefix) ==
    {k \in DOMAIN committed :
        /\ RefLive(committed, k, now)
        /\ (IsNil(prefix) \/ HasPrefix(k, Val(prefix)))}
NoPrefix(opts) == IsNil(opts.Prefix) \/ Val(opts.Prefix) = <<>>

\* C3: Get never returns the value of an expired entry.  A Get of a key whose
\* last upsert has not expired returns exactly the value written, with no
\* error; a Get of a key that is expired, deleted or was never written fails
\* with ErrKeyNotFound and returns no bytes.
C3_GetHidesExpired ==
    last.op = "Get" =>
        IF RefLive(committed, last.key, now)
        THEN last.err = ErrNil /\ last.val = committed[last.key].val
        ELSE last.err = ErrKeyNotFound /\ last.val = <<>>

\* a Get of a key that is still stored with a non-empty value, after its TTL
C3_Witness ==
    /\ last.op = "Get"
    /\ last.key \in DOMAIN Stored
    /\ Stored[last.key].val = <<7>>
    /\ Stored[last.key].exp # NoExpiry
    /\ now >= Stored[last.key].exp
    /\ last.err = ErrKeyNotFound

\* C4 (as claimed): TTL(k) fails with ErrKeyNotFound in exactly the states
\* where Get(k) fails with ErrKeyNotFound; for a stored key whose expiry has
\* passed TTL returns ErrKeyNotFound, not the stored expiry.
C4_TTLNotFoundAsGet ==
    last.op = "TTL" =>
        LET g == IF backend = "leveldb" THEN LdbGet(ldb, last.key, now)
                 ELSE BdbGet(bdb, last.key, now)
        IN /\ (last.err = ErrKeyNotFound) <=> (g.err = ErrKeyNotFound)
           /\ (g.err = ErrKeyNotFound => last.exp = NoExpiry)

\* C5: for a live key, TTL returns no expiry iff the last upsert of the key
\* (by Put or by Batch) had TTL = 0, and otherwise the time of that write
\* plus its TTL; an upsert with TTL 0 clears an earlier expiry.
C5_TTLOfLiveKey ==
    (last.op = "TTL" /\ RefLive(committed, last.key, now)) =>
        /\ last.err = ErrNil
        /\ last.exp = committed[last.key].exp

\* TTL of a live key that carries an expiry
C5_Witness ==
    /\ last.op = "TTL"
    /\ RefLive(committed, last.key, now)
    /\ committed[last.key].exp # NoExpiry
    /\ last.exp = committed[last.key].exp
\* C1 (as claimed): a forward Scan with no Offset, on either backend and for
\* every Prefix, hands the Scanner every non-expired key under Prefix exactly
\* once, in ascending byte order, and returns no error.
C1_ForwardScanAll ==
    (/\ ScanReturned
     /\ NeverFails(last.opts)
     /\ ~last.opts.ReverseScan
     /\ IsNil(last.opts.Offset)) =>
        /\ last.err = ErrNil
        /\ Ascending(EmittedKeys)
        /\ EmittedSet = LiveUnder(last.opts.Prefix)

\* C2 (as claimed): a reverse Scan with no Offset hands the Scanner every
\* non-expired key under Prefix exactly once, in strictly descending order,
\* starting from the last key that matches the prefix.
C2_ReverseScanAll ==
    (/\ ScanReturned
     /\ NeverFails(last.opts)
     /\ last.opts.ReverseScan
     /\ IsNil(last.opts.Offset)) =>
        /\ last.err = ErrNil
        /\ Descending(EmittedKeys)
        /\ EmittedSet = LiveUnder(last.opts.Prefix)

C8_ForwardOffset ==
    (/\ ScanReturned
     /\ NeverFails(last.opts)
     /\ ~last.opts.ReverseScan
     /\ ~IsNil(last.opts.Offset)
     /\ NoPrefix(last.opts)) =>
        /\ last.err = ErrNil
        /\ Ascending(EmittedKeys)
        /\ EmittedSet =
             {k \in LiveUnder(None) :
                \/ BytesCompare(k, Val(last.opts.Offset)) > 0
                \/ (last.opts.IncludeOffset /\ k = Val(last.opts.Offset))}

\* a forward Scan from a live stored key, excluded, with live keys on both sides
C8_Witness ==
    /\ ScanReturned
    /\ NeverFails(last.opts)
    /\ ~last.opts.ReverseScan
    /\ NoPrefix(last.opts)
    /\ last.opts.Offset = Some(<<2>>)
    /\ ~last.opts.IncludeOffset
    /\ LiveUnder(None) = {<<1>>, <<2>>, <<2, 1>>}
    /\ last.emitted = << << <<2, 1>>, <<7>> >> >>

\* C9 (as claimed): a reverse Scan with Offset set starts at the greatest key
\* <= Offset: no key greater than Offset reaches the Scanner, and every live
\* key below Offset (under Prefix) does, in descending order, also when
\* Offset is not a stored key or is above every stored key.
C9_ReverseOffset ==
    (/\ ScanReturned
     /\ NeverFails(last.opts)
     /\ last.opts.ReverseScan
     /\ ~IsNil(last.opts.Offset)) =>
        /\ \A k \in EmittedSet : BytesCompare(k, Val(last.opts.Offset)) <= 0
        /\ \A k \in LiveUnder(last.opts.Prefix) :
              BytesCompare(k, Val(last.opts.Offset)) < 0 => k \in EmittedSet
        /\ Descending(EmittedKeys)

\* C10: when the Scanner returns ErrScanDone on its n-th invocation, Scan
\* returns nil and the Scanner has been invoked exactly n times.
C10_ScanDoneStops ==
    (/\ ScanReturned
     /\ ~IsNil(last.opts.Scanner)
     /\ Val(last.opts.Scanner).failWith = ErrScanDone
     /\ Len(last.emitted) >= Val(last.opts.Scanner).failAt) =>
        /\ last.err = ErrNil
        /\ Len(last.emitted) = Val(last.opts.Scanner).failAt

\* the Scanner stopped a scan of three live keys at the second
C10_Witness ==
    /\ ScanReturned
    /\ last.opts.Scanner = Some([failAt |-> 2, failWith |-> ErrScanDone])
    /\ IsNil(last.opts.Prefix)
    /\ Cardinality(LiveUnder(None)) >= 3
    /\ Len(last.emitted) = 2
    /\ last.err = ErrNil

\* C11: when the Scanner returns an error other than ErrScanDone on its n-th
\* invocation, Scan returns that error and the Scanner has been invoked
\* exactly n times (it is not invoked again).
C11_ScannerErrorPropagated ==
    (/\ ScanReturned
     /\ ~IsNil(last.opts.Scanner)
     /\ Val(last.opts.Scanner).failWith = ErrCallback
     /\ Len(last.emitted) >= Val(last.opts.Scanner).failAt) =>
        /\ last.err = ErrCallback
        /\ Len(last.emitted) = Val(last.opts.Scanner).failAt

\* the Scanner failed on the first of three live keys
C11_Witness ==
    /\ ScanReturned
    /\ last.opts.Scanner = Some([failAt |-> 1, failWith |-> ErrCallback])
    /\ IsNil(last.opts.Prefix)
    /\ Cardinality(LiveUnder(None)) >= 3
    /\ Len(last.emitted) = 1
    /\ last.err = ErrCallback

\* the stored keys a leveldb Scan walks over, in scan order from the record
\* its seek lands on
LdbWalked(opts) ==
    LET R == LdbRange(ldb, opts)
        start == LdbSeek(R, opts)
    IN IF IsNil(start) THEN {}
       ELSE {k \in R : IF opts.ReverseScan
                        THEN BytesCompare(k, Val(start)) <= 0
                        ELSE BytesCompare(k, Val(start)) >= 0}

\* C12: a leveldb Scan that runs to the end never hands an expired record to
\* the Scanner and does not stop at one: of the records it walks over, it
\* hands over, in scan order, exactly those that are not expired (and are not
\* the excluded Offset record), so also each live record after an expired one.
C12_LdbScanSkipsExpired ==
    (/\ ScanReturned
     /\ backend = "leveldb"
     /\ NeverFails(last.opts)
     /\ ~LdbSeekIsNil(last.opts)) =>
        /\ last.err = ErrNil
        /\ \A k \in EmittedSet : RefLive(committed, k, now)
        /\ EmittedSet =
             {k \in LdbWalked(last.opts) :
                /\ RefLive(committed, k, now)
                /\ ~(/\ ~last.opts.IncludeOffset
                     /\ last.opts.Offset = Some(k))}
        /\ IF last.opts.ReverseScan THEN Descending(EmittedKeys)
           ELSE Ascending(EmittedKeys)

\* a reverse leveldb Scan over three stored keys, the middle one expired
C12_Witness ==
    /\ ScanReturned
    /\ backend = "leveldb"
    /\ NeverFails(last.opts)
    /\ last.opts.ReverseScan
    /\ IsNil(last.opts.Offset)
    /\ IsNil(last.opts.Prefix)
    /\ DOMAIN ldb = {<<1>>, <<2>>, <<2, 1>>}
    /\ IsExpired(BytesToValue(ldb[<<2>>]), now)
    /\ EmittedKeys = << <<2, 1>>, <<1>> >>

\* C13: Delete(k) returns no error, whether or not k is stored, and leaves
\* the store as it found it but for k; a Get of a key that was deleted and not
\* written since (or was never written) fails with ErrKeyNotFound.
C13_DeleteIdempotent ==
    /\ last.op = "Delete" =>
          /\ last.err = ErrNil
          /\ Stored = [x \in DOMAIN Val(last.before) \ {last.key} |->
                          Val(last.before)[x]]
    /\ (last.op = "Get" /\ last.key \notin DOMAIN committed) =>
          last.err = ErrKeyNotFound

\* a Delete of a key that is not stored, beside a stored key with an expiry
C13_Witness ==
    /\ last.op = "Delete"
    /\ last.err = ErrNil
    /\ last.key \notin DOMAIN Val(last.before)
    /\ \E x \in DOMAIN Stored : Stored[x].exp # NoExpiry

\* C14 (as claimed): Close stops the maintenance goroutine, so once Close has
\* returned no further value-log GC pass is made on the database.
C14_CloseStopsMaintenance == closed => ~gcAfterClose

\* the live part of the engine's content and of the reference store
LiveStored == {<<k, Stored[k]>> : k \in {x \in DOMAIN Stored :
                    Stored[x].exp = NoExpiry \/ now < Stored[x].exp}}
LiveCommitted == {<<k, committed[k]>> : k \in {x \in DOMAIN committed :
                    RefLive(committed, x, now)}}

C16_NilScannerRefused ==
    (ScanReturned /\ IsNil(last.opts.Scanner)) =>
        /\ last.err = ErrNoScanner
        /\ last.emitted = <<>>
        /\ ~last.opened
        /\ Stored = Val(last.before)

\* a reverse badgerdb Scan with Prefix, Offset and IncludeOffset and no
\* Scanner, over a store that holds the Offset key under the Prefix
C16_Witness ==
    /\ ScanReturned
    /\ backend = "badgerdb"
    /\ IsNil(last.opts.Scanner)
    /\ last.opts.ReverseScan
    /\ last.opts.IncludeOffset
    /\ last.opts.Prefix = Some(<<2>>)
    /\ last.opts.Offset = Some(<<2, 1>>)
    /\ <<2, 1>> \in LiveUnder(None)
    /\ last.err = ErrNoScanner

\* C17: the registry.  Register of a registered name fails with
\* ErrDriverAlreadyExists and changes nothing; Register of a new name adds
\* it and nothing else; no call removes or replaces a name.  Open of a name
\* that is not registered fails with ErrDriverNotFound; Open of a registered
\* name returns what the registered factory's Open(config) returns.
C17_RegistryKeepsNames ==
    /\ \A n \in DOMAIN rlast.before :
          n \in DOMAIN drivers /\ drivers[n] = rlast.before[n]
    /\ rlast.op = "Register" =>
          IF rlast.name \in DOMAIN rlast.before
          THEN rlast.err = ErrDriverAlreadyExists /\ drivers = rlast.before
          ELSE /\ rlast.err = ErrNil
               /\ DOMAIN drivers = DOMAIN rlast.before \cup {rlast.name}
               /\ drivers[rlast.name] = rlast.factory
    /\ rlast.op = "Open" =>
          /\ drivers = rlast.before
          /\ IF rlast.name \notin DOMAIN drivers
             THEN rlast.err = ErrDriverNotFound /\ IsNil(rlast.provider)
             ELSE [provider |-> rlast.provider, err |-> rlast.err] =
                     FactoryOpen(drivers[rlast.name], rlast.cfg)

\* a second Register of a name, with another factory, was refused
C17_Witness ==
    /\ rlast.op = "Register"
    /\ rlast.err = ErrDriverAlreadyExists
    /\ rlast.name \in DOMAIN drivers
    /\ drivers[rlast.name] # rlast.factory
    /\ Cardinality(DOMAIN drivers) >= 2

C19_PrefixWithOffset ==
    (ScanReturned /\ ~IsNil(last.opts.Scanner) /\ ~IsNil(last.opts.Prefix)) =>
        /\ \A k \in EmittedSet : HasPrefix(k, Val(last.opts.Prefix))
        /\ (/\ NeverFails(last.opts)
            /\ ~last.opts.ReverseScan
            /\ ~IsNil(last.opts.Offset)
            /\ \A k \in DOMAIN committed :
                  HasPrefix(k, Val(last.opts.Prefix)) =>
                      BytesCompare(Val(last.opts.Offset), k) <= 0) =>
               \A k \in LiveUnder(last.opts.Prefix) :
                  \/ k \in EmittedSet
                  \/ (~last.opts.IncludeOffset /\ last.opts.Offset = Some(k))

\* C20 (as claimed): every Put, Delete and successful Batch is synced to disk
\* before it returns iff the provider was opened with sync_writes = true.
C20_SyncFollowsConfig ==
    (\/ last.op \in {"Put", "Delete"}
     \/ (last.op = "Batch" /\ last.err = ErrNil)) =>
        last.sync = SyncWritesOf(config)
====
